---- MODULE Spec2Model ----
(***************************************************************************)
(* rustdiff: rolling weak checksums (Adler32, Fletcher32), signature       *)
(* generation (gen_sigs), delta encoding (gen_delta_from_file) and         *)
(* patching (patch_file_with_delta).                                       *)
(*                                                                         *)
(* A u32 weak hash is kept as the pair <<high 16 bits, low 16 bits>>,      *)
(* because (b << 16) | a does not fit TLC's integers.  BLAKE2s-256 is an   *)
(* external crate; its digest is modelled as collision-free on the inputs  *)
(* of the model (a tagged copy of the hashed bytes).                       *)
(***************************************************************************)
EXTENDS Integers, Sequences, FiniteSets, TLC

VARIABLES
    command,          \* which entry point runs: the commands "sign", "delta", "patch" of
                      \* main, "roundtrip" (the library calls of the integration tests)
                      \* or "weak_hash" (calls on one Adler32 / Fletcher32 instance)
    old_file,         \* bytes of the file gen_sigs reads (src_path)
    new_file,         \* bytes of the file gen_delta_from_file reads (path)
    chunk_size,
    algorithm,        \* the algorithm argument; None when the command line has none
    overflow_checks,  \* "either" until a u32 subtraction overflows, then "on" or "off"
    pc,
    buffer_index,     \* gen_sigs: the loop's `index`
    signatures,       \* HashMap<u32, Signature>
    signature_index,
    collisions,
    algo,             \* the Adler32 / Fletcher32 instance in use
    hashes,           \* Vec<HashBlock>; under "weak_hash", the hash and window of each call
    index,            \* gen_delta_from_file: the cursor `index`
    delta,            \* Vec<Delta>
    delta_file,       \* the serialized delta (output_path / delta_file)
    delta_pos,        \* patch_file_with_delta: tokens of loaded_delta consumed
    output,           \* patch_file_with_delta: `output`
    out_file          \* the file patch_file_with_delta writes, or Absent

vars == <<command, old_file, new_file, chunk_size, algorithm, overflow_checks, pc,
          buffer_index, signatures, signature_index, collisions, algo, hashes,
          index, delta, delta_file, delta_pos, output, out_file>>

----------------------------------------------------------------------------
(* Bounds and input families *)

MaxSignLen == 6
MaxOldLen == 4
MaxNewLen == 5
MaxDeltaLen == 2
MaxChunkLen == 2
MaxCalls == 3

Bytes == {0, 1, 2}
Bits == {0, 1}
SignChunkSizes == {1, 2, 3}
ChunkSizes == {2, 3}
Algorithms == {"adler", "fletcher"}

\* Option<String> of the command line: no argument, the two names, any other name
None == "None"
AlgorithmArgs == {None} \cup Algorithms \cup {"md5"}

SeqsUpTo(S, n) == UNION {[1..k -> S] : k \in 0..n}

Repeat(x, n) == [k \in 1..n |-> x]

\* a file that does not exist yet, a file with its content, the content of a file
Absent == <<>>
File(content) == <<content>>
Content(file) == file[1]

----------------------------------------------------------------------------
(* Weak hashes *)

Adler32_MOD == 65521
Fletcher32_MOD == 65535

MOD(alg) == IF alg = "fletcher" THEN Fletcher32_MOD ELSE Adler32_MOD

\* Adler32::new with a starting at 0, as Fletcher32's does
Adler32_new_from_zero == [a |-> 0, b |-> 0, current_window |-> <<>>]

Adler32_new == [a |-> 1, b |-> 0, current_window |-> <<>>]
Fletcher32_new == [a |-> 0, b |-> 0, current_window |-> <<>>]

\* `match algorithm { "fletcher" => Fletcher32::new(), _ => Adler32::new() }`
new_algo(alg) == IF alg = "fletcher" THEN Fletcher32_new ELSE Adler32_new

\* (self.b << 16) | self.a, as <<high half, low half>>; a, b < 2^16 always
get_current_hash(self) == <<self.b % 65536, self.a>>

RECURSIVE chunk_fold(_, _, _, _)
chunk_fold(m, a, b, chunk) ==
    IF chunk = <<>> THEN <<a, b>>
    ELSE LET a1 == (a + Head(chunk)) % m
             b1 == (b + a1) % m
         IN chunk_fold(m, a1, b1, Tail(chunk))

\* get_chunk_hash: the state it leaves; the hash returned is get_current_hash of it
get_chunk_hash(alg, self, chunk) ==
    LET ab == chunk_fold(MOD(alg), self.a, self.b, chunk)
    IN [a |-> ab[1], b |-> ab[2], current_window |-> chunk]

\* 2^32 mod m, from 2^16 mod m
TwoPow32Mod(m) == ((65536 % m) * (65536 % m)) % m

\* (x - y) % m in u32: wrapping_sub when x < y (a build without overflow checks)
WrappingSubMod(x, y, m) ==
    IF x >= y THEN (x - y) % m
    ELSE (TwoPow32Mod(m) + m - ((y - x) % m)) % m

\* get_rolling_hash with `self.b + self.a` in place of `self.b + self.a - 1` for Adler32
get_rolling_hash_no_correction(alg, self, new_byte) ==
    LET m == MOD(alg)
        a1 == (self.a + new_byte) % m
        b1 == (self.b + a1) % m
        pushed == Append(self.current_window, new_byte)
        last_byte == pushed[1]
        size == Len(pushed)
        a2 == WrappingSubMod(a1, last_byte, m)
        b2 == WrappingSubMod(b1, size * last_byte, m)
    IN [a |-> a2, b |-> b2, current_window |-> Tail(pushed),
        overflow |-> (a1 < last_byte) \/ (b1 < size * last_byte)]

\* get_rolling_hash without `self.current_window.remove(0)`: the window grows
get_rolling_hash_keeps_oldest(alg, self, new_byte) ==
    LET m == MOD(alg)
        one == IF alg = "fletcher" THEN 0 ELSE 1
        a1 == (self.a + new_byte) % m
        b1 == WrappingSubMod(self.b + a1, one, m)
        pushed == Append(self.current_window, new_byte)
        last_byte == pushed[1]
        size == Len(pushed)
        a2 == WrappingSubMod(a1, last_byte, m)
        b2 == WrappingSubMod(b1, size * last_byte, m)
    IN [a |-> a2, b |-> b2, current_window |-> pushed,
        overflow |-> (self.b + a1 < one) \/ (a1 < last_byte) \/ (b1 < size * last_byte)]

(* get_rolling_hash: the state it leaves when no check stops it, and whether   *)
(* one of its u32 subtractions went below zero.                                *)
get_rolling_hash(alg, self, new_byte) ==
    LET m == MOD(alg)
        one == IF alg = "fletcher" THEN 0 ELSE 1
        a1 == (self.a + new_byte) % m
        b1 == WrappingSubMod(self.b + a1, one, m)
        pushed == Append(self.current_window, new_byte)
        last_byte == pushed[1]
        size == Len(pushed)
        a2 == WrappingSubMod(a1, last_byte, m)
        b2 == WrappingSubMod(b1, size * last_byte, m)
    IN [a |-> a2, b |-> b2, current_window |-> Tail(pushed),
        overflow |-> (self.b + a1 < one) \/ (a1 < last_byte) \/ (b1 < size * last_byte)]

AlgoState(r) == [a |-> r.a, b |-> r.b, current_window |-> r.current_window]

----------------------------------------------------------------------------
(* Strong hash *)

get_blake2(chunk) == <<"blake2s256", chunk>>

----------------------------------------------------------------------------
(* Signatures *)

Signature(i, checksum, bytes) == [index |-> i, checksum |-> checksum, bytes |-> bytes]

\* &buffer[index..index + chunk_size], index 0-based
Slice(buffer, from, to) == SubSeq(buffer, from + 1, to)

\* add_next_sign inserting over an entry whose bytes differ (the last chunk seen wins)
add_next_sign_last_wins(alg, i, chunk, sigs) ==
    LET weak_hash == get_current_hash(get_chunk_hash(alg, new_algo(alg), chunk))
    IN IF weak_hash \in DOMAIN sigs /\ chunk = sigs[weak_hash].bytes
       THEN <<sigs, FALSE>>
       ELSE <<[w \in (DOMAIN sigs) \cup {weak_hash} |->
                 IF w = weak_hash THEN Signature(i, get_blake2(chunk), chunk) ELSE sigs[w]],
              weak_hash \in DOMAIN sigs>>

\* add_next_sign without the "fletcher" arm: every chunk is keyed by its Adler32 hash
add_next_sign_adler_only(alg, i, chunk, sigs) ==
    LET weak_hash == get_current_hash(get_chunk_hash("adler", Adler32_new, chunk))
    IN IF weak_hash \in DOMAIN sigs
       THEN <<sigs, chunk # sigs[weak_hash].bytes>>
       ELSE <<[w \in (DOMAIN sigs) \cup {weak_hash} |->
                 IF w = weak_hash THEN Signature(i, get_blake2(chunk), chunk) ELSE sigs[w]],
              FALSE>>

\* add_next_sign: <<signatures after the call, the bool returned>>
add_next_sign(alg, i, chunk, sigs) ==
    LET weak_hash == get_current_hash(get_chunk_hash(alg, new_algo(alg), chunk))
        checksum == get_blake2(chunk)
        bytes == chunk
    IN IF weak_hash \in DOMAIN sigs
       THEN IF bytes # sigs[weak_hash].bytes
            THEN <<sigs, TRUE>>
            ELSE <<sigs, FALSE>>
       ELSE <<[w \in (DOMAIN sigs) \cup {weak_hash} |->
                 IF w = weak_hash THEN Signature(i, checksum, bytes) ELSE sigs[w]],
              FALSE>>

EmptyMap == [w \in {} |-> 0]

\* the index never advancing
next_signature_index_stuck(i, before, after) == i

\* the index advancing only when add_next_sign inserted an entry
next_signature_index_on_insert(i, before, after) == IF after # before THEN i + 1 ELSE i

\* `signature_index += 1`, whatever add_next_sign did with the chunk
next_signature_index(i, before, after) == i + 1

----------------------------------------------------------------------------
(* Initial states *)

Idle ==
    /\ overflow_checks = "either"
    /\ buffer_index = 0
    /\ signatures = EmptyMap
    /\ signature_index = 0
    /\ collisions = 0
    /\ algo = new_algo(algorithm)
    /\ hashes = <<>>
    /\ index = 0
    /\ delta = <<>>
    /\ delta_pos = 0
    /\ output = <<>>
    /\ out_file = Absent

\* a longer file for gen_sigs; at chunk size 3: an entry, a chunk of the same weak
\* hash and other bytes, a byte-equal repeat of the first, and a tail of one byte
SignVectors == {<<0, 2, 0>> \o <<1, 0, 1>> \o <<0, 2, 0>> \o <<1>>}

SignInputs ==
    /\ command = "sign"
    /\ old_file \in SeqsUpTo(Bytes, MaxSignLen) \cup SignVectors
    /\ new_file = <<>>
    /\ chunk_size \in SignChunkSizes
    /\ delta_file = Absent

RoundTripInputs ==
    /\ command = "roundtrip"
    /\ old_file \in SeqsUpTo(Bits, MaxOldLen)
    /\ new_file \in SeqsUpTo(Bits, MaxNewLen)
    /\ chunk_size \in ChunkSizes
    /\ delta_file = Absent

\* "hello world" followed by 'a', 'm': the vectors of the algorithms' unit tests
HelloWorld == <<104, 101, 108, 108, 111, 32, 119, 111, 114, 108, 100>>
HelloWorldAM == HelloWorld \o <<97, 109>>

\* two chunks of one weak hash (both algorithms): a = 2 (+1), b = 4 (+3)
ChunkX == <<0, 2, 0>>
ChunkY == <<1, 0, 1>>

\* chunk sizes at which the sum b of a run of high bytes passes the modulus
WideChunks == {22}

VectorInputs ==
    /\ command = "roundtrip"
    /\ \/ /\ chunk_size = Len(HelloWorld)
          /\ old_file \in {<<>>, HelloWorld}
          /\ new_file = HelloWorldAM
       \/ /\ chunk_size = Len(ChunkX)
          /\ old_file \in {ChunkX, ChunkY, ChunkX \o ChunkY, ChunkY \o ChunkX, ChunkX \o ChunkX}
          /\ \E shift \in {<<>>, <<1>>}, tail \in {<<>>, ChunkX, ChunkY} :
                 new_file \in {shift \o ChunkX \o tail, shift \o ChunkY \o tail}
       \/ /\ chunk_size \in WideChunks
          /\ old_file \in {<<>>, Repeat(255, chunk_size), Repeat(255, 2 * chunk_size)}
          /\ new_file \in {Repeat(255, chunk_size + 1), Repeat(255, 2 * chunk_size)}
    /\ delta_file = Absent

Delta_I(i) == [t |-> "I", v |-> i]
Delta_B(b) == [t |-> "B", v |-> b]

PatchTokens == {Delta_B(0), Delta_B(1), Delta_I(0), Delta_I(1)}

PatchInputs ==
    /\ command = "patch"
    /\ old_file \in SeqsUpTo(Bits, MaxOldLen)
    /\ new_file = <<>>
    /\ chunk_size \in ChunkSizes
    /\ delta_file \in {File(d) : d \in SeqsUpTo(PatchTokens, MaxDeltaLen)}

\* gen_delta of main: gen_sigs over file1, then gen_delta_from_file over file2
DeltaInputs ==
    /\ command = "delta"
    /\ old_file \in SeqsUpTo(Bits, MaxDeltaLen)
    /\ new_file \in SeqsUpTo(Bits, MaxDeltaLen + 1)
    /\ chunk_size \in ChunkSizes
    /\ delta_file = Absent

\* a caller of the WeakHash trait holding one instance; no file, no chunking
WeakHashInputs ==
    /\ command = "weak_hash"
    /\ old_file = <<>>
    /\ new_file = <<>>
    /\ chunk_size = MaxChunkLen
    /\ delta_file = Absent

\* the chunks and bytes such a caller passes
WeakHashChunks == SeqsUpTo(Bits, MaxChunkLen) \cup {Repeat(255, c) : c \in WideChunks}
WeakHashBytes == Bits \cup {255}

CliCommands == {"sign", "delta", "patch"}

Init ==
    /\ \/ /\ SignInputs \/ DeltaInputs \/ PatchInputs
          /\ algorithm \in AlgorithmArgs
          /\ pc = "main"
       \/ /\ RoundTripInputs \/ VectorInputs
          /\ algorithm \in Algorithms
          /\ pc = "gen_sigs"
       \/ /\ WeakHashInputs
          /\ algorithm \in Algorithms
          /\ pc = "new"
    /\ Idle

----------------------------------------------------------------------------
(* main *)

\* algo_msg returns: no algorithm argument, or one of the two names
algo_msg_accepts_any(algorithm_arg) == TRUE

algo_msg(algorithm_arg) == algorithm_arg = None \/ algorithm_arg \in {"adler", "fletcher"}

\* the algorithm of verify_args: the argument, "adler" without one
verify_args(algorithm_arg) == IF algorithm_arg = None THEN "adler" ELSE algorithm_arg

\* algo_msg panics on the name
MainAlgoPanic ==
    /\ pc = "main"
    /\ ~algo_msg(algorithm)
    /\ pc' = "panic"
    /\ UNCHANGED <<command, old_file, new_file, chunk_size, algorithm, overflow_checks,
                   buffer_index, signatures, signature_index, collisions, algo, hashes,
                   index, delta, delta_file, delta_pos, output, out_file>>

\* algo_msg returns; gen_sign, gen_delta or patch runs verify_args and calls gen_sigs
Main ==
    /\ pc = "main"
    /\ algo_msg(algorithm)
    /\ algorithm' = verify_args(algorithm)
    /\ algo' = new_algo(algorithm')
    /\ pc' = "gen_sigs"
    /\ UNCHANGED <<command, old_file, new_file, chunk_size, overflow_checks,
                   buffer_index, signatures, signature_index, collisions, hashes,
                   index, delta, delta_file, delta_pos, output, out_file>>

----------------------------------------------------------------------------
(* gen_sigs *)

\* an iteration without the `break`: what is left of the buffer goes to add_next_sign
SignStep_short_tail ==
    /\ pc = "gen_sigs"
    /\ buffer_index < Len(old_file)
    /\ LET to == IF buffer_index + chunk_size > Len(old_file)
                 THEN Len(old_file) ELSE buffer_index + chunk_size
           chunk == Slice(old_file, buffer_index, to)
           result == add_next_sign(algorithm, signature_index, chunk, signatures)
       IN /\ signatures' = result[1]
          /\ collisions' = IF result[2] THEN collisions + 1 ELSE collisions
    /\ signature_index' = next_signature_index(signature_index, signatures, signatures')
    /\ buffer_index' = buffer_index + chunk_size
    /\ UNCHANGED <<command, old_file, new_file, chunk_size, algorithm, overflow_checks, pc,
                   algo, hashes, index, delta, delta_file, delta_pos, output, out_file>>

\* one iteration of the loop of gen_sigs that reaches add_next_sign
SignStep ==
    /\ pc = "gen_sigs"
    /\ buffer_index < Len(old_file)
    /\ buffer_index + chunk_size <= Len(old_file)
    /\ LET chunk == Slice(old_file, buffer_index, buffer_index + chunk_size)
           result == add_next_sign(algorithm, signature_index, chunk, signatures)
       IN /\ signatures' = result[1]
          /\ collisions' = IF result[2] THEN collisions + 1 ELSE collisions
    /\ signature_index' = next_signature_index(signature_index, signatures, signatures')
    /\ buffer_index' = buffer_index + chunk_size
    /\ UNCHANGED <<command, old_file, new_file, chunk_size, algorithm, overflow_checks, pc,
                   algo, hashes, index, delta, delta_file, delta_pos, output, out_file>>

\* the loop ends (range exhausted, or `break` on a short tail) and gen_sigs returns
SignReturn ==
    /\ pc = "gen_sigs"
    /\ \/ buffer_index >= Len(old_file)
       \/ buffer_index + chunk_size > Len(old_file)
    /\ pc' = IF command = "sign" THEN "done"
             ELSE IF command = "patch" THEN "patch" ELSE "calculate_rolling_hashes"
    /\ UNCHANGED <<command, old_file, new_file, chunk_size, algorithm, overflow_checks,
                   buffer_index, signatures, signature_index, collisions, algo, hashes,
                   index, delta, delta_file, delta_pos, output, out_file>>

----------------------------------------------------------------------------
(* calculate_rolling_hashes *)

HashBlock(i, weak_hash, bytes) == [index |-> i, weak_hash |-> weak_hash, bytes |-> bytes]

\* `&buffer[0..chunk_size]` panics when the buffer is shorter than chunk_size
CalcSlicePanic ==
    /\ pc = "calculate_rolling_hashes"
    /\ chunk_size > Len(new_file)
    /\ pc' = "panic"
    /\ UNCHANGED <<command, old_file, new_file, chunk_size, algorithm, overflow_checks,
                   buffer_index, signatures, signature_index, collisions, algo, hashes,
                   index, delta, delta_file, delta_pos, output, out_file>>

\* the first HashBlock, from get_chunk_hash over buffer[0..chunk_size]
CalcFirst ==
    /\ pc = "calculate_rolling_hashes"
    /\ chunk_size <= Len(new_file)
    /\ LET chunk == Slice(new_file, 0, chunk_size)
           after == get_chunk_hash(algorithm, algo, chunk)
       IN /\ algo' = after
          /\ hashes' = <<HashBlock(0, get_current_hash(after), chunk)>>
    /\ pc' = "rolling"
    /\ UNCHANGED <<command, old_file, new_file, chunk_size, algorithm, overflow_checks,
                   buffer_index, signatures, signature_index, collisions,
                   index, delta, delta_file, delta_pos, output, out_file>>

\* the byte the next iteration of `for byte in &buffer[chunk_size..]` reads
NextRollByte == new_file[chunk_size + Len(hashes)]

\* one iteration: get_rolling_hash returns and a HashBlock is pushed
RollStep ==
    /\ pc = "rolling"
    /\ chunk_size + Len(hashes) <= Len(new_file)
    /\ LET r == get_rolling_hash(algorithm, algo, NextRollByte)
       IN /\ r.overflow => overflow_checks # "on"
          /\ overflow_checks' = IF r.overflow THEN "off" ELSE overflow_checks
          /\ algo' = AlgoState(r)
          /\ hashes' = Append(hashes,
                 HashBlock(Len(hashes), get_current_hash(AlgoState(r)), r.current_window))
    /\ UNCHANGED <<command, old_file, new_file, chunk_size, algorithm, pc,
                   buffer_index, signatures, signature_index, collisions,
                   index, delta, delta_file, delta_pos, output, out_file>>

\* one iteration: a u32 subtraction of get_rolling_hash overflows in a build that checks
RollOverflowPanic ==
    /\ pc = "rolling"
    /\ chunk_size + Len(hashes) <= Len(new_file)
    /\ get_rolling_hash(algorithm, algo, NextRollByte).overflow
    /\ overflow_checks # "off"
    /\ overflow_checks' = "on"
    /\ pc' = "panic"
    /\ UNCHANGED <<command, old_file, new_file, chunk_size, algorithm,
                   buffer_index, signatures, signature_index, collisions, algo, hashes,
                   index, delta, delta_file, delta_pos, output, out_file>>

RollReturn ==
    /\ pc = "rolling"
    /\ chunk_size + Len(hashes) > Len(new_file)
    /\ pc' = "gen_delta"
    /\ UNCHANGED <<command, old_file, new_file, chunk_size, algorithm, overflow_checks,
                   buffer_index, signatures, signature_index, collisions, algo, hashes,
                   index, delta, delta_file, delta_pos, output, out_file>>

----------------------------------------------------------------------------
(* gen_delta_from_file: the main loop *)

\* the tail taken from `index + 1`
Literals_skip_first(bytes) == [k \in 1..(Len(bytes) - 1) |-> Delta_B(bytes[k + 1])]

Literals(bytes) == [k \in 1..Len(bytes) |-> Delta_B(bytes[k])]

\* a weak hit taken as a match, without the strong checksum
IsMatch_weak_only(sigs, block) == block.weak_hash \in DOMAIN sigs

\* the weak hash is in the table and the strong checksums agree
IsMatch(sigs, block) ==
    /\ block.weak_hash \in DOMAIN sigs
    /\ sigs[block.weak_hash].checksum = get_blake2(block.bytes)

\* the loop condition taken as always true
LoopHead_no_exit(i) == "gen_delta"

\* where the loop goes after an iteration that did not break
LoopHead(i) == IF i < Len(new_file) THEN "gen_delta" ELSE "write_delta"

DeltaUnchanged ==
    UNCHANGED <<command, old_file, new_file, chunk_size, algorithm, overflow_checks,
                buffer_index, signatures, signature_index, collisions, algo, hashes,
                delta_file, delta_pos, output, out_file>>

\* index > buffer.len() - chunk_size: the rest goes out as bytes, then `break`
DeltaTail ==
    /\ pc = "gen_delta"
    /\ index < Len(new_file)
    /\ index > Len(new_file) - chunk_size
    /\ delta' = delta \o Literals(Slice(new_file, index, Len(new_file)))
    /\ pc' = "write_delta"
    /\ UNCHANGED index
    /\ DeltaUnchanged

\* a match that moves the cursor by one byte, as a literal does
DeltaMatch_advance_one ==
    /\ pc = "gen_delta"
    /\ index < Len(new_file)
    /\ index <= Len(new_file) - chunk_size
    /\ IsMatch(signatures, hashes[index + 1])
    /\ delta' = Append(delta, Delta_I(signatures[hashes[index + 1].weak_hash].index))
    /\ index' = index + 1
    /\ pc' = LoopHead(index')
    /\ DeltaUnchanged

DeltaMatch ==
    /\ pc = "gen_delta"
    /\ index < Len(new_file)
    /\ index <= Len(new_file) - chunk_size
    /\ IsMatch(signatures, hashes[index + 1])
    /\ delta' = Append(delta, Delta_I(signatures[hashes[index + 1].weak_hash].index))
    /\ index' = index + chunk_size
    /\ pc' = LoopHead(index')
    /\ DeltaUnchanged

DeltaLiteral ==
    /\ pc = "gen_delta"
    /\ index < Len(new_file)
    /\ index <= Len(new_file) - chunk_size
    /\ ~IsMatch(signatures, hashes[index + 1])
    /\ delta' = Append(delta, Delta_B(new_file[index + 1]))
    /\ index' = index + 1
    /\ pc' = LoopHead(index')
    /\ DeltaUnchanged

\* File::create(output_path), serde_json::to_writer(&f, &delta)
DeltaWrite ==
    /\ pc = "write_delta"
    /\ delta_file' = File(delta)
    /\ pc' = IF command = "delta" THEN "done" ELSE "patch"
    /\ UNCHANGED <<command, old_file, new_file, chunk_size, algorithm, overflow_checks,
                   buffer_index, signatures, signature_index, collisions, algo, hashes,
                   index, delta, delta_pos, output, out_file>>

----------------------------------------------------------------------------
(* patch_file_with_delta *)

\* serde_json::from_reader over the delta file
loaded_delta == Content(delta_file)

\* the entries get_data's find_map can stop at, whatever the map's iteration order
get_data(i, sigs) == {sigs[w].bytes : w \in {x \in DOMAIN sigs : sigs[x].index = i}}

PatchUnchanged ==
    UNCHANGED <<command, old_file, new_file, chunk_size, algorithm, overflow_checks,
                buffer_index, signatures, signature_index, collisions, algo, hashes,
                index, delta, delta_file, out_file>>

PatchByte ==
    /\ pc = "patch"
    /\ delta_pos < Len(loaded_delta)
    /\ loaded_delta[delta_pos + 1].t = "B"
    /\ output' = Append(output, loaded_delta[delta_pos + 1].v)
    /\ delta_pos' = delta_pos + 1
    /\ UNCHANGED pc
    /\ PatchUnchanged

PatchIndex ==
    /\ pc = "patch"
    /\ delta_pos < Len(loaded_delta)
    /\ loaded_delta[delta_pos + 1].t = "I"
    /\ \E data \in get_data(loaded_delta[delta_pos + 1].v, signatures) :
           output' = output \o data
    /\ delta_pos' = delta_pos + 1
    /\ UNCHANGED pc
    /\ PatchUnchanged

\* the token of a missing index skipped and the loop going on
PatchPanic_skip_token ==
    /\ pc = "patch"
    /\ delta_pos < Len(loaded_delta)
    /\ loaded_delta[delta_pos + 1].t = "I"
    /\ get_data(loaded_delta[delta_pos + 1].v, signatures) = {}
    /\ delta_pos' = delta_pos + 1
    /\ UNCHANGED <<pc, output>>
    /\ PatchUnchanged

\* get_data returns None: error!, panic!()
PatchPanic ==
    /\ pc = "patch"
    /\ delta_pos < Len(loaded_delta)
    /\ loaded_delta[delta_pos + 1].t = "I"
    /\ get_data(loaded_delta[delta_pos + 1].v, signatures) = {}
    /\ pc' = "panic"
    /\ UNCHANGED <<delta_pos, output>>
    /\ PatchUnchanged

\* File::create(out_file), write_all(&output)
PatchWrite ==
    /\ pc = "patch"
    /\ delta_pos = Len(loaded_delta)
    /\ out_file' = File(output)
    /\ pc' = "done"
    /\ UNCHANGED <<command, old_file, new_file, chunk_size, algorithm, overflow_checks,
                   buffer_index, signatures, signature_index, collisions, algo, hashes,
                   index, delta, delta_file, delta_pos, output>>

----------------------------------------------------------------------------
(* calls on one WeakHash instance, in any order *)

WeakHashUnchanged ==
    UNCHANGED <<command, old_file, new_file, chunk_size, algorithm,
                buffer_index, signatures, signature_index, collisions,
                index, delta, delta_file, delta_pos, output, out_file>>

CallChunkHash ==
    /\ command = "weak_hash"
    /\ pc \in {"new", "get_chunk_hash", "get_rolling_hash"}
    /\ Len(hashes) < MaxCalls
    /\ \E chunk \in WeakHashChunks :
           LET after == get_chunk_hash(algorithm, algo, chunk)
           IN /\ algo' = after
              /\ hashes' = Append(hashes,
                     HashBlock(Len(hashes), get_current_hash(after), after.current_window))
    /\ pc' = "get_chunk_hash"
    /\ UNCHANGED overflow_checks
    /\ WeakHashUnchanged

CallRollingHash ==
    /\ command = "weak_hash"
    /\ pc \in {"new", "get_chunk_hash", "get_rolling_hash"}
    /\ Len(hashes) < MaxCalls
    /\ \E new_byte \in WeakHashBytes :
           LET r == get_rolling_hash(algorithm, algo, new_byte)
           IN /\ r.overflow => overflow_checks # "on"
              /\ overflow_checks' = IF r.overflow THEN "off" ELSE overflow_checks
              /\ algo' = AlgoState(r)
              /\ hashes' = Append(hashes,
                     HashBlock(Len(hashes), get_current_hash(AlgoState(r)), r.current_window))
    /\ pc' = "get_rolling_hash"
    /\ WeakHashUnchanged

\* a u32 subtraction of get_rolling_hash overflows in a build that checks
CallRollingPanic ==
    /\ command = "weak_hash"
    /\ pc \in {"new", "get_chunk_hash", "get_rolling_hash"}
    /\ Len(hashes) < MaxCalls
    /\ \E new_byte \in WeakHashBytes : get_rolling_hash(algorithm, algo, new_byte).overflow
    /\ overflow_checks # "off"
    /\ overflow_checks' = "on"
    /\ pc' = "panic"
    /\ UNCHANGED <<algo, hashes>>
    /\ WeakHashUnchanged

----------------------------------------------------------------------------

Next ==
    \/ MainAlgoPanic
    \/ Main
    \/ SignStep
    \/ SignReturn
    \/ CalcSlicePanic
    \/ CalcFirst
    \/ RollStep
    \/ RollOverflowPanic
    \/ RollReturn
    \/ DeltaTail
    \/ DeltaMatch
    \/ DeltaLiteral
    \/ DeltaWrite
    \/ PatchByte
    \/ PatchIndex
    \/ PatchPanic
    \/ PatchWrite
    \/ CallChunkHash
    \/ CallRollingHash
    \/ CallRollingPanic

Spec == Init /\ [][Next]_vars

\* gen_delta_from_file runs its loop on one thread with nothing to wait for: an
\* iteration that can run does run
FairSpec == Spec /\ WF_vars(DeltaTail \/ DeltaMatch \/ DeltaLiteral)

----------------------------------------------------------------------------
(* Properties *)

\* a number below 2^31 as a u32 hash value
U32(n) == <<n \div 65536, n % 65536>>

\* the weak hash of a chunk from a fresh instance of the selected algorithm
ScratchHash(chunk) == get_current_hash(get_chunk_hash(algorithm, new_algo(algorithm), chunk))

NumChunks == Len(old_file) \div chunk_size
OldChunk(k) == Slice(old_file, k * chunk_size, (k + 1) * chunk_size)
ChunksExamined == buffer_index \div chunk_size

AllLiteral(bytes) == [k \in 1..Len(bytes) |-> [t |-> "B", v |-> bytes[k]]]

\* bytes of the new file a token stands for, and the cursor at which token k was emitted
TokenSpan(tok) == IF tok.t = "I" THEN chunk_size ELSE 1

RECURSIVE SpanSum(_)
SpanSum(toks) == IF toks = <<>> THEN 0 ELSE TokenSpan(Head(toks)) + SpanSum(Tail(toks))

CursorOf(k) == SpanSum(SubSeq(delta, 1, k - 1))
WindowAt(p) == Slice(new_file, p, p + chunk_size)

\* the window at cursor p shares its weak hash with an entry of other bytes
WeakCollisionAt(p) ==
    /\ p + chunk_size <= Len(new_file)
    /\ ScratchHash(WindowAt(p)) \in DOMAIN signatures
    /\ signatures[ScratchHash(WindowAt(p))].bytes # WindowAt(p)

Indices == {signatures[w].index : w \in DOMAIN signatures}

(* C1: for every old file, new file, chunk size >= 2 and algorithm, signing,   *)
(* encoding and patching complete without failure and the file written is      *)
(* exactly the new file.                                                       *)
RoundTripIdentity ==
    (command = "roundtrip" /\ chunk_size >= 2) =>
        /\ pc # "panic"
        /\ pc = "done" => out_file = File(new_file)

(* C2: a new file shorter than the chunk size is encoded successfully as one   *)
(* Literal per byte, in order.                                                 *)
ShortNewFile ==
    (command = "roundtrip" /\ Len(new_file) < chunk_size) =>
        /\ pc # "panic"
        /\ delta_file # Absent => delta_file = File(AllLiteral(new_file))

(* C3: every hash calculate_rolling_hashes gets by sliding equals the hash a   *)
(* fresh instance returns for that window, the window is the slice of the      *)
(* buffer at that offset, and no slide fails.                                  *)
RollingEquivalence ==
    command \in {"roundtrip", "delta"} =>
        /\ overflow_checks # "on"
        /\ \A i \in 1..Len(hashes) :
               /\ hashes[i].bytes = WindowAt(i - 1)
               /\ hashes[i].weak_hash = ScratchHash(WindowAt(i - 1))

(* C4: encoding a file of length L against its own signatures gives            *)
(* L div C Match tokens followed by L mod C Literal tokens, and patching       *)
(* gives the file back.                                                        *)
IdenticalFiles ==
    (command = "roundtrip" /\ new_file = old_file) =>
        /\ pc # "panic"
        /\ delta_file # Absent =>
               /\ Len(Content(delta_file)) = NumChunks + (Len(old_file) % chunk_size)
               /\ \A k \in 1..Len(Content(delta_file)) :
                      Content(delta_file)[k].t = IF k <= NumChunks THEN "I" ELSE "B"
        /\ pc = "done" => out_file = File(old_file)

(* C5: a Match(k) emitted at cursor i names the one entry of index k, whose    *)
(* bytes are N[i:i+C]; a window that shares its weak hash with an entry of     *)
(* other bytes gets Literal(N[i]); and a finished patch wrote N.               *)
MatchSoundness ==
    command = "roundtrip" =>
        /\ \A k \in 1..Len(delta) :
               /\ delta[k].t = "I" =>
                      /\ CursorOf(k) + chunk_size <= Len(new_file)
                      /\ get_data(delta[k].v, signatures) = {WindowAt(CursorOf(k))}
               /\ WeakCollisionAt(CursorOf(k)) =>
                      delta[k] = [t |-> "B", v |-> new_file[CursorOf(k) + 1]]
        /\ pc = "done" => out_file = File(new_file)

CollisionAndMatchPatched ==
    /\ command = "roundtrip"
    /\ pc = "done"
    /\ out_file = File(new_file)
    /\ \E k \in 1..Len(delta) : delta[k].t = "I"
    /\ \E k \in 1..Len(delta) : WeakCollisionAt(CursorOf(k)) /\ delta[k].t = "B"

(* C6: when the new file is at least one chunk long and none of its windows    *)
(* is byte-equal to a full chunk of the old file, the delta that               *)
(* gen_delta_from_file writes is one Literal per byte of N, in order.          *)
NoChunkOccurs ==
    \A p \in 0..(Len(new_file) - chunk_size) :
        \A k \in 0..(NumChunks - 1) : WindowAt(p) # OldChunk(k)

LiteralOnlyOnMismatch ==
    (/\ command = "roundtrip"
     /\ Len(new_file) >= chunk_size
     /\ NoChunkOccurs
     /\ delta_file # Absent) => delta_file = File(AllLiteral(new_file))

MismatchEncoded ==
    /\ command = "roundtrip"
    /\ Len(new_file) > chunk_size
    /\ NumChunks >= 1
    /\ NoChunkOccurs
    /\ delta_file = File(AllLiteral(new_file))

(* C7: on "hello world" the chunk hash is 436929629 (Adler32) or 436208732     *)
(* (Fletcher32); sliding in 'a' gives 434635862 or 433914965; sliding in 'm'   *)
(* then gives 435029086 or 434308189.                                          *)
KnownAnswers ==
    (new_file = HelloWorldAM /\ chunk_size = Len(HelloWorld)) =>
        LET expected == IF algorithm = "fletcher"
                        THEN <<U32(436208732), U32(433914965), U32(434308189)>>
                        ELSE <<U32(436929629), U32(434635862), U32(435029086)>>
        IN \A i \in 1..Len(hashes) : hashes[i].weak_hash = expected[i]

KnownAnswersComputed ==
    /\ new_file = HelloWorldAM
    /\ chunk_size = Len(HelloWorld)
    /\ algorithm = "adler"
    /\ Len(hashes) = 3
    /\ hashes[3].weak_hash = U32(435029086)

(* C8: every weak hash of a chunk examined so far has an entry, and the entry  *)
(* is the first chunk with that weak hash: its index is that chunk's ordinal   *)
(* and its bytes are that chunk's bytes.                                       *)
FirstOrdinalWith(w) ==
    CHOOSE k \in 0..(ChunksExamined - 1) :
        /\ ScratchHash(OldChunk(k)) = w
        /\ \A j \in 0..(k - 1) : ScratchHash(OldChunk(j)) # w

FirstSeenWins ==
    \A k \in 0..(ChunksExamined - 1) :
        LET w == ScratchHash(OldChunk(k))
        IN /\ w \in DOMAIN signatures
           /\ signatures[w].index = FirstOrdinalWith(w)
           /\ signatures[w].bytes = OldChunk(FirstOrdinalWith(w))

CollidingChunkDropped ==
    /\ pc = "done"
    /\ command = "sign"
    /\ collisions > 0
    /\ \E j, k \in 0..(NumChunks - 1) :
           /\ j < k
           /\ ScratchHash(OldChunk(j)) = ScratchHash(OldChunk(k))
           /\ OldChunk(j) # OldChunk(k)
           /\ signatures[ScratchHash(OldChunk(k))].bytes = OldChunk(j)

(* C9, as claimed: after gen_sigs on a file without weak-hash collisions the   *)
(* indices of the entries are exactly 0 .. K-1, K the number of entries.       *)
ContiguousIndices ==
    (pc # "gen_sigs" /\ collisions = 0) =>
        Indices = 0..(Cardinality(DOMAIN signatures) - 1)

(* C9, amended: the index advances on every chunk examined, inserted or not;   *)
(* the entries carry distinct indices below the number of chunks examined,     *)
(* and these are exactly 0 .. K-1 when every chunk examined was inserted (no   *)
(* weak hash occurred twice).                                                  *)
IndexPerChunk ==
    LET K == Cardinality(DOMAIN signatures)
    IN /\ signature_index = ChunksExamined
       /\ Indices \subseteq 0..(signature_index - 1)
       /\ Cardinality(Indices) = K
       /\ K = ChunksExamined => Indices = 0..(K - 1)

AllChunksInserted ==
    /\ pc = "done"
    /\ command = "sign"
    /\ NumChunks >= 3
    /\ Cardinality(DOMAIN signatures) = NumChunks
    /\ Indices = 0..(NumChunks - 1)

(* C10: every entry of the table, at every step of gen_sigs and after it,      *)
(* holds C bytes, the strong checksum of those bytes, and is keyed by their    *)
(* weak hash computed from scratch with the selected algorithm.                *)
EntryWellFormed ==
    \A w \in DOMAIN signatures :
        /\ Len(signatures[w].bytes) = chunk_size
        /\ signatures[w].checksum = get_blake2(signatures[w].bytes)
        /\ w = ScratchHash(signatures[w].bytes)

TableBuilt ==
    /\ pc = "done"
    /\ command = "sign"
    /\ algorithm = "fletcher"
    /\ Cardinality(DOMAIN signatures) >= 2
    /\ Len(old_file) % chunk_size # 0
    /\ EntryWellFormed

(* C12: when the loaded delta holds a Match(i) and the table has no entry of   *)
(* index i, patch_file_with_delta consumes the tokens before the first such    *)
(* token, stops at it, never finishes, and the output file is never created.   *)
(* (patch_file_with_delta has been entered: the algorithm name passed main,    *)
(* gen_sigs has returned and the delta file exists.)                           *)
UnknownAt(k) ==
    /\ loaded_delta[k].t = "I"
    /\ get_data(loaded_delta[k].v, signatures) = {}

FirstUnknown == CHOOSE k \in 1..Len(loaded_delta) :
                    UnknownAt(k) /\ \A j \in 1..(k - 1) : ~UnknownAt(j)

UnknownIndexFatal ==
    (/\ delta_file # Absent
     /\ pc \in {"patch", "panic", "done"}
     /\ command \in {"patch", "roundtrip"}
     /\ algo_msg(algorithm)
     /\ \E k \in 1..Len(loaded_delta) : UnknownAt(k)) =>
        /\ pc # "done"
        /\ out_file = Absent
        /\ delta_pos < FirstUnknown
        /\ pc = "panic" => delta_pos = FirstUnknown - 1

AbortedAtUnknownIndex ==
    /\ command = "patch"
    /\ pc = "panic"
    /\ delta_file # Absent
    /\ Len(loaded_delta) = 2
    /\ UnknownAt(2)
    /\ delta_pos = 1
    /\ output # <<>>
    /\ signatures # EmptyMap
    /\ out_file = Absent

(* C13: in the sign, delta and patch commands an algorithm name other than     *)
(* "adler" and "fletcher" stops the run in main: no signature is computed, no  *)
(* delta token is produced, no delta or output file is written, the command    *)
(* never completes; and no step past main runs under such a name.              *)
InvalidAlgorithmFatal ==
    command \in CliCommands =>
        /\ algorithm \notin {None, "adler", "fletcher"} =>
               /\ pc \in {"main", "panic"}
               /\ signatures = EmptyMap
               /\ signature_index = 0
               /\ hashes = <<>>
               /\ delta = <<>>
               /\ output = <<>>
               /\ command # "patch" => delta_file = Absent
               /\ out_file = Absent
        /\ pc \notin {"main", "panic"} => algorithm \in {"adler", "fletcher"}

InvalidAlgorithmRejected ==
    /\ command = "delta"
    /\ algorithm = "md5"
    /\ pc = "panic"
    /\ Len(old_file) >= chunk_size
    /\ Len(new_file) >= chunk_size
    /\ signatures = EmptyMap
    /\ delta_file = Absent

(* C14: no call of get_rolling_hash, on either algorithm, on a window filled   *)
(* by get_chunk_hash and slid any number of times, evaluates one of its        *)
(* subtractions (b + a - 1, a - x_old, b - n * x_old) below zero: no run      *)
(* meets the overflow, whose outcome (panic or wrap) overflow_checks records.  *)
NoSubtractionBelowZero == overflow_checks = "either"

(* C15: get_chunk_hash(chunk) on an instance in any state, after any earlier   *)
(* get_chunk_hash and get_rolling_hash calls, returns the hash a fresh         *)
(* instance returns for chunk and leaves the window equal to chunk.            *)
InitResetsState ==
    (command = "weak_hash" /\ pc = "get_chunk_hash") =>
        /\ hashes[Len(hashes)].bytes = algo.current_window
        /\ hashes[Len(hashes)].weak_hash = ScratchHash(algo.current_window)

(* C16: at the start of every iteration of the encoder's loop, with cursor i,  *)
(* (number of Literal tokens) + C * (number of Match tokens) = i and the bytes *)
(* the tokens stand for, in order, are N[0:i]; once the loop has ended the sum *)
(* is |N| and the bytes are N; every Literal carries the byte of N at its      *)
(* position, so the tokens cover N without gap or overlap.                     *)
RECURSIVE Denoted(_)
Denoted(toks) ==
    IF toks = <<>> THEN {<<>>}
    ELSE LET here == IF Head(toks).t = "I" THEN get_data(Head(toks).v, signatures)
                     ELSE {<<Head(toks).v>>}
         IN {h \o rest : h \in here, rest \in Denoted(Tail(toks))}

PartitionOfNewFile ==
    command \in {"roundtrip", "delta"} =>
        /\ pc = "gen_delta" =>
               /\ SpanSum(delta) = index
               /\ Denoted(delta) = {Slice(new_file, 0, index)}
        /\ (pc = "write_delta" \/ delta_file # Absent) =>
               /\ SpanSum(delta) = Len(new_file)
               /\ Denoted(delta) = {new_file}
        /\ \A k \in 1..Len(delta) :
               delta[k].t = "B" => delta[k].v = new_file[CursorOf(k) + 1]

MatchesAndLiteralsCover ==
    /\ command = "delta"
    /\ pc = "done"
    /\ Len(delta) >= 2
    /\ delta[1].t = "B"
    /\ \E k \in 1..Len(delta) : delta[k].t = "I"
    /\ SpanSum(delta) = Len(new_file)
    /\ Denoted(delta) = {new_file}

(* C17: for every new file of at least C bytes, the token sequence             *)
(* gen_delta_from_file writes is the one of the encoder that holds the hash of *)
(* N[i:i+C] at cursor i (sliding by one byte after a Literal, initialising     *)
(* over N[i:i+C] after a Match), emits Match on a weak hit with equal strong   *)
(* checksum, Literal otherwise, and the remaining bytes as Literals when fewer *)
(* than C are left.                                                            *)
RECURSIVE SpecifiedTokens(_)
SpecifiedTokens(i) ==
    IF i >= Len(new_file) THEN <<>>
    ELSE IF i > Len(new_file) - chunk_size
    THEN [k \in 1..(Len(new_file) - i) |-> [t |-> "B", v |-> new_file[i + k]]]
    ELSE LET w == ScratchHash(WindowAt(i))
         IN IF /\ w \in DOMAIN signatures
               /\ signatures[w].checksum = get_blake2(WindowAt(i))
            THEN <<[t |-> "I", v |-> signatures[w].index]>> \o SpecifiedTokens(i + chunk_size)
            ELSE <<[t |-> "B", v |-> new_file[i + 1]]>> \o SpecifiedTokens(i + 1)

EncoderRefinement ==
    (/\ command \in {"roundtrip", "delta"}
     /\ Len(new_file) >= chunk_size
     /\ delta_file # Absent) => Content(delta_file) = SpecifiedTokens(0)

(* C18: whenever the cursor is at i <= |N| - C and N[i:i+C] is byte-equal to   *)
(* the bytes of an entry of the table, the token emitted at i is Match of that *)
(* entry's index (the cursor then advances by C), never a Literal.             *)
EntriesOf(bytes) == {w \in DOMAIN signatures : signatures[w].bytes = bytes}

MatchCompleteness ==
    command \in {"roundtrip", "delta"} =>
        \A k \in 1..Len(delta) :
            LET i == CursorOf(k)
            IN (i <= Len(new_file) - chunk_size /\ EntriesOf(WindowAt(i)) # {}) =>
                   /\ delta[k].t = "I"
                   /\ \E w \in EntriesOf(WindowAt(i)) : delta[k].v = signatures[w].index

(* C19: after every get_chunk_hash or get_rolling_hash call that returns, on   *)
(* either algorithm, 0 <= a < M and 0 <= b < M; the hash returned is           *)
(* b * 2^16 + a with both halves below 2^16, and it is what get_current_hash   *)
(* gives for the state left; get_rolling_hash leaves the window as long as it  *)
(* found it.                                                                   *)
WindowBefore(k) == IF k = 1 THEN <<>> ELSE hashes[k - 1].bytes

WeakHashStateInvariant ==
    /\ algo.a \in 0..(MOD(algorithm) - 1)
    /\ algo.b \in 0..(MOD(algorithm) - 1)
    /\ \A k \in 1..Len(hashes) :
           /\ hashes[k].weak_hash[1] \in 0..65535
           /\ hashes[k].weak_hash[2] \in 0..65535
    /\ hashes # <<>> =>
           /\ hashes[Len(hashes)].weak_hash = <<algo.b, algo.a>>
           /\ hashes[Len(hashes)].weak_hash = get_current_hash(algo)
           /\ hashes[Len(hashes)].bytes = algo.current_window
    /\ command = "weak_hash" =>
           (pc = "get_rolling_hash" =>
                Len(algo.current_window) = Len(WindowBefore(Len(hashes))))
    /\ command # "weak_hash" =>
           \A k \in 1..Len(hashes) : Len(hashes[k].bytes) = chunk_size

WrappedHashInRange ==
    /\ command = "weak_hash"
    /\ pc = "get_rolling_hash"
    /\ overflow_checks = "off"
    /\ Len(hashes) = 3
    /\ Len(algo.current_window) = 22
    /\ hashes[3].weak_hash = <<algo.b, algo.a>>
    /\ algo.b < MOD(algorithm)

(* C20: in the table gen_sigs builds, at every step and after it, no two       *)
(* entries carry the same index, so get_data on the index of an entry can      *)
(* return that entry's bytes and nothing else, whatever order the map is       *)
(* walked in.                                                                  *)
IndexResolvesUniquely ==
    /\ \A w1, w2 \in DOMAIN signatures :
           signatures[w1].index = signatures[w2].index => w1 = w2
    /\ \A w \in DOMAIN signatures :
           get_data(signatures[w].index, signatures) = {signatures[w].bytes}

EntriesResolvedByIndex ==
    /\ command = "patch"
    /\ pc = "done"
    /\ Cardinality(DOMAIN signatures) = 2
    /\ \E k \in 1..Len(loaded_delta) : loaded_delta[k] = Delta_I(1)
    /\ \E w \in DOMAIN signatures :
           /\ signatures[w].index = 1
           /\ get_data(1, signatures) = {signatures[w].bytes}
           /\ out_file # Absent

(* C21: gen_sigs examines the floor(|B| / C) full chunks of B and nothing      *)
(* else: at every step entries + byte-equal duplicates skipped + collisions    *)
(* is the number of chunks examined, which ends at floor(|B| / C); the table   *)
(* and the collision count are those of B cut to floor(|B| / C) * C bytes; a   *)
(* file shorter than C gives an empty table and no collision.                  *)
DuplicatesSkipped ==
    Cardinality({k \in 0..(ChunksExamined - 1) :
                   LET w == ScratchHash(OldChunk(k))
                   IN /\ w \in DOMAIN signatures
                      /\ signatures[w].bytes = OldChunk(k)
                      /\ signatures[w].index # k})

\* gen_sigs over a buffer of whole chunks: <<table, collision count>> from chunk k on
RECURSIVE SigsOfChunks(_, _, _, _)
SigsOfChunks(buffer, k, sigs, count) ==
    IF (k + 1) * chunk_size > Len(buffer) THEN <<sigs, count>>
    ELSE LET chunk == Slice(buffer, k * chunk_size, (k + 1) * chunk_size)
             weak_hash == ScratchHash(chunk)
         IN IF weak_hash \in DOMAIN sigs
            THEN SigsOfChunks(buffer, k + 1, sigs,
                              IF sigs[weak_hash].bytes # chunk THEN count + 1 ELSE count)
            ELSE SigsOfChunks(buffer, k + 1,
                     [w \in (DOMAIN sigs) \cup {weak_hash} |->
                         IF w = weak_hash
                         THEN [index |-> k, checksum |-> <<"blake2s256", chunk>>,
                               bytes |-> chunk]
                         ELSE sigs[w]],
                     count)

WholeChunks == Slice(old_file, 0, NumChunks * chunk_size)

ChunkAccounting ==
    /\ ChunksExamined <= NumChunks
    /\ buffer_index = ChunksExamined * chunk_size
    /\ Cardinality(DOMAIN signatures) + DuplicatesSkipped + collisions = ChunksExamined
    /\ (/\ command # "weak_hash"
        /\ algo_msg(algorithm)
        /\ pc \notin {"main", "gen_sigs"}) =>
           /\ ChunksExamined = NumChunks
           /\ <<signatures, collisions>> = SigsOfChunks(WholeChunks, 0, EmptyMap, 0)
           /\ Len(old_file) < chunk_size => (signatures = EmptyMap /\ collisions = 0)

TailIgnored ==
    /\ command = "sign"
    /\ pc = "done"
    /\ chunk_size = 3
    /\ Len(old_file) % chunk_size = 1
    /\ Cardinality(DOMAIN signatures) = 1
    /\ DuplicatesSkipped = 1
    /\ collisions = 1
    /\ NumChunks = 3

(* C22: once the encoder's loop is entered it ends; the cursor never passes    *)
(* |N|; an iteration that goes on moves it by 1 (Literal) or by C (Match);     *)
(* with fewer than C bytes left the iteration emits them all as Literals and   *)
(* the loop ends; there are at most |N| iterations (each emits a token).       *)
EncoderIteration ==
    pc = "gen_delta" =>
        \/ /\ index <= Len(new_file) - chunk_size
           /\ \/ index' = index + 1 /\ delta'[Len(delta')].t = "B"
              \/ index' = index + chunk_size /\ delta'[Len(delta')].t = "I"
           /\ Len(delta') = Len(delta) + 1
           /\ index' <= Len(new_file)
           /\ pc' = IF index' < Len(new_file) THEN "gen_delta" ELSE "write_delta"
        \/ /\ index > Len(new_file) - chunk_size
           /\ delta' = delta \o [k \in 1..(Len(new_file) - index) |->
                                    [t |-> "B", v |-> new_file[index + k]]]
           /\ pc' = "write_delta"

EncoderTerminates ==
    /\ [](index <= Len(new_file) /\ Len(delta) <= Len(new_file))
    /\ [][EncoderIteration]_vars
    /\ (pc = "gen_delta") ~> (pc = "write_delta")

LoopEndedByTail ==
    /\ command = "delta"
    /\ pc = "write_delta"
    /\ index < Len(new_file)
    /\ index > Len(new_file) - chunk_size
    /\ \E k \in 1..Len(delta) : delta[k].t = "I"
    /\ delta[Len(delta)] = [t |-> "B", v |-> new_file[Len(new_file)]]

(* C23: get_rolling_hash(x) on a newly constructed Adler32 or Fletcher32, for  *)
(* any byte x, returns without overflow, leaves the window empty and a, b at   *)
(* their initial values (1, 0 for Adler32; 0, 0 for Fletcher32) and returns    *)
(* the initial hash, 1 for Adler32 and 0 for Fletcher32; the same again on     *)
(* every further call while the window is empty.                               *)
SlideBeforeInitNoOp ==
    command = "weak_hash" =>
        /\ (pc = "panic" \/ overflow_checks # "either") => hashes # <<>>
        /\ (/\ pc = "get_rolling_hash"
            /\ \A k \in 1..(Len(hashes) - 1) : hashes[k].bytes = <<>>) =>
               /\ overflow_checks = "either"
               /\ algo.current_window = <<>>
               /\ algo.a = (IF algorithm = "fletcher" THEN 0 ELSE 1)
               /\ algo.b = 0
               /\ hashes[Len(hashes)].weak_hash =
                      <<0, IF algorithm = "fletcher" THEN 0 ELSE 1>>

SlidOnFreshInstance ==
    /\ command = "weak_hash"
    /\ algorithm = "adler"
    /\ pc = "get_rolling_hash"
    /\ Len(hashes) = 1
    /\ hashes[1].weak_hash = <<0, 1>>
    /\ algo = [a |-> 1, b |-> 0, current_window |-> <<>>]

====
